---- MODULE Spec2Model ----
(***************************************************************************)
(* Model of the Louisiana weather station table scripts:                   *)
(*   scripts/generate_tables.py        (the report generator)              *)
(*   scripts/weather_data_fetcher.py   (the station-only fetcher)          *)
(*   data/weather_summary_with_coordinates.py (the one-shot CSV script)    *)
(*                                                                         *)
(* Python values are tagged tuples:                                        *)
(*   <<"num", n, d>>  the number n/d (d > 0, lowest terms)                 *)
(*   <<"nan">>        numpy.nan / float('nan')                             *)
(*   <<"str", s>>     a str                                                *)
(*   <<"list", q>>    a list whose items are the values of the sequence q  *)
(*   <<"none">>       None                                                 *)
(*   <<"date", s>>    a pandas Timestamp parsed from s;  <<"nat">>  NaT    *)
(*   <<"absent">>     a dict key that is not there                         *)
(* Numbers are exact rationals: float rounding is not modelled.            *)
(***************************************************************************)
EXTENDS Integers, Sequences, FiniteSets, TLC

VARIABLES
    prog,           \* which script runs
    pc,             \* position of the script's main
    station_file,   \* the station directory file: File(lines) or NoFile
    api,            \* what the upstream service answers: Answer(entries) or Unreachable
    fmt,            \* args.format of generate_tables.py, "" until main reads it
    station_dict,   \* station id -> <<name, division>>
    requested_ids,  \* station ids in file order
    stations_data,  \* the fetched station entries
    df,             \* the station rows (process_station_data / process_data)
    df_final,       \* generate_tables.py: stations interleaved with division rows
    excel_df_div,   \* generate_tables.py: df_div of export_to_excel, the state row last
    div_summary,    \* weather_data_fetcher.py: the division and statewide summaries
    out,            \* the exported tables, by sheet or file
    err             \* the exception or exit that ended the run, "" when none

vars == <<prog, pc, station_file, api, fmt, station_dict, requested_ids,
          stations_data, df, df_final, excel_df_div, div_summary, out, err>>

(***************************************************************************)
(* Bounds of the model.                                                    *)
(***************************************************************************)
MaxStations == 3
MaxLines == 3

(***************************************************************************)
(* Values.                                                                 *)
(***************************************************************************)
NaN == <<"nan">>
None == <<"none">>
NaT == <<"nat">>
Absent == <<"absent">>
Str(s) == <<"str", s>>
List(q) == <<"list", q>>

Tag(v) == v[1]
IsNum(v) == Tag(v) = "num"
IsStr(v) == Tag(v) = "str"
IsList(v) == Tag(v) = "list"
\* Python ==, on values of any two types
Eq(a, b) == Tag(a) = Tag(b) /\ Tag(a) # "nan" /\ a = b

RECURSIVE Gcd(_, _)
Gcd(a, b) == IF b = 0 THEN a ELSE Gcd(b, a % b)
Abs(n) == IF n < 0 THEN -n ELSE n

\* the number n/d, d # 0, in lowest terms with a positive denominator
Rat(n, d) ==
    LET g == Gcd(Abs(n), Abs(d))
        s == IF d < 0 THEN -1 ELSE 1
    IN  <<"num", (s * n) \div g, (s * d) \div g>>
Int2Num(n) == <<"num", n, 1>>

MISSING == -999
Sentinel == Int2Num(MISSING)

(***************************************************************************)
(* Strings: str.strip, str.split(maxsplit=1), slices, float().             *)
(***************************************************************************)
IsSpace(c) == c \in {" ", "\t"}

RECURSIVE LStrip(_)
LStrip(s) ==
    IF Len(s) > 0 /\ IsSpace(SubSeq(s, 1, 1)) THEN LStrip(SubSeq(s, 2, Len(s))) ELSE s

RECURSIVE RStrip(_)
RStrip(s) ==
    IF Len(s) > 0 /\ IsSpace(SubSeq(s, Len(s), Len(s)))
    THEN RStrip(SubSeq(s, 1, Len(s) - 1)) ELSE s

\* s.strip()
Strip(s) == RStrip(LStrip(s))

\* the length of the first whitespace-free run of s
RECURSIVE TokenLen(_)
TokenLen(s) ==
    IF Len(s) = 0 \/ IsSpace(SubSeq(s, 1, 1)) THEN 0
    ELSE 1 + TokenLen(SubSeq(s, 2, Len(s)))

\* s.split(maxsplit=1): the first token, and the rest after the whitespace that
\* follows it (its own trailing whitespace kept); no rest, no second part
Split1(s) ==
    LET t == LStrip(s)
        k == TokenLen(t)
        rest == LStrip(SubSeq(t, k + 1, Len(t)))
    IN  IF k = 0 THEN <<>>
        ELSE IF rest = "" THEN <<SubSeq(t, 1, k)>>
        ELSE <<SubSeq(t, 1, k), rest>>

\* a variant of s[:-2] that removes one character
DropLast2_removing_one(s) == SubSeq(s, 1, Len(s) - 1)

\* s[:-2] and s[-2:]
DropLast2(s) == SubSeq(s, 1, Len(s) - 2)
Last2(s) == SubSeq(s, IF Len(s) > 2 THEN Len(s) - 1 ELSE 1, Len(s))

DigitVal(c) ==
    CASE c = "0" -> 0 [] c = "1" -> 1 [] c = "2" -> 2 [] c = "3" -> 3 [] c = "4" -> 4
      [] c = "5" -> 5 [] c = "6" -> 6 [] c = "7" -> 7 [] c = "8" -> 8 [] c = "9" -> 9
      [] OTHER -> -1

\* the digits of s read as a natural number, -1 when s is empty or has a non-digit
RECURSIVE DigitsVal(_, _)
DigitsVal(s, acc) ==
    IF Len(s) = 0 THEN acc
    ELSE IF DigitVal(SubSeq(s, 1, 1)) < 0 THEN -1
    ELSE DigitsVal(SubSeq(s, 2, Len(s)), 10 * acc + DigitVal(SubSeq(s, 1, 1)))

RECURSIVE Pow10(_)
Pow10(k) == IF k = 0 THEN 1 ELSE 10 * Pow10(k - 1)

\* the position of the first "." of s, 0 when there is none
RECURSIVE DotAt(_, _)
DotAt(s, i) ==
    IF i > Len(s) THEN 0 ELSE IF SubSeq(s, i, i) = "." THEN i ELSE DotAt(s, i + 1)

\* the number ip.fp of two digit strings: <<"err">> stands for ValueError
Decimal(ip, fp) ==
    IF Len(ip) + Len(fp) = 0 \/ DigitsVal(ip, 0) < 0 \/ DigitsVal(fp, 0) < 0 THEN <<"err">>
    ELSE Rat(DigitsVal(ip, 0) * Pow10(Len(fp)) + DigitsVal(fp, 0), Pow10(Len(fp)))

\* the digits u, with the fraction after the "." at position dot when dot > 0
Unsigned(u, dot) ==
    IF u = "nan" THEN <<"nan">>
    ELSE IF dot = 0 THEN Decimal(u, "")
    ELSE Decimal(SubSeq(u, 1, dot - 1), SubSeq(u, dot + 1, Len(u)))

\* -x of a parsed number
Negated(x) == IF Tag(x) = "num" THEN <<"num", -x[2], x[3]>> ELSE x

\* float(t) of a string without outer whitespace
Signed(t) ==
    IF Len(t) > 0 /\ SubSeq(t, 1, 1) \in {"-", "+"}
    THEN IF SubSeq(t, 1, 1) = "-"
         THEN Negated(Unsigned(SubSeq(t, 2, Len(t)), DotAt(SubSeq(t, 2, Len(t)), 1)))
         ELSE Unsigned(SubSeq(t, 2, Len(t)), DotAt(SubSeq(t, 2, Len(t)), 1))
    ELSE Unsigned(t, DotAt(t, 1))

\* float(s) of a str: outer whitespace and a sign allowed, then digits with an
\* optional fraction, or nan; <<"err">> stands for ValueError
ParseFloat(s) == Signed(Strip(s))

\* float(val) of any value: <<"err">> stands for ValueError / TypeError
Float(val) ==
    CASE Tag(val) = "num" -> val
      [] Tag(val) = "nan" -> NaN
      [] Tag(val) = "str" -> ParseFloat(val[2])
      [] OTHER -> <<"err">>

\* the code point of a character: space, - . / and the ASCII digits and letters
Upper == "ABCDEFGHIJKLMNOPQRSTUVWXYZ"
Lower == "abcdefghijklmnopqrstuvwxyz"

RECURSIVE IndexOf(_, _, _)
IndexOf(c, s, i) ==
    IF i > Len(s) THEN 0 ELSE IF SubSeq(s, i, i) = c THEN i ELSE IndexOf(c, s, i + 1)

Ord(c) ==
    IF DigitVal(c) >= 0 THEN 48 + DigitVal(c)
    ELSE IF IndexOf(c, Upper, 1) > 0 THEN 64 + IndexOf(c, Upper, 1)
    ELSE IF IndexOf(c, Lower, 1) > 0 THEN 96 + IndexOf(c, Lower, 1)
    ELSE CASE c = " " -> 32 [] c = "-" -> 45 [] c = "." -> 46 [] c = "/" -> 47
           [] OTHER -> 0

\* str < str
RECURSIVE StrLess(_, _)
StrLess(a, b) ==
    IF Len(b) = 0 THEN FALSE
    ELSE IF Len(a) = 0 THEN TRUE
    ELSE IF SubSeq(a, 1, 1) # SubSeq(b, 1, 1) THEN Ord(SubSeq(a, 1, 1)) < Ord(SubSeq(b, 1, 1))
    ELSE StrLess(SubSeq(a, 2, Len(a)), SubSeq(b, 2, Len(b)))

(***************************************************************************)
(* The station directory.                                                  *)
(***************************************************************************)
\* a file that is there, with these lines, and one that is not
File(lines) == [exists |-> TRUE, lines |-> lines]
NoFile == [exists |-> FALSE, lines |-> <<>>]
EmptyDict == [k \in {} |-> <<>>]

\* a variant of d[k] = v that keeps the entry k already has
DictSet_first_wins(d, k, v) ==
    [x \in DOMAIN d \cup {k} |-> IF x \in DOMAIN d THEN d[x] ELSE v]

\* d[k] = v of a Python dict
DictSet(d, k, v) == [x \in DOMAIN d \cup {k} |-> IF x = k THEN v ELSE d[x]]

\* the body of the loop over the lines: the directory after one more line
LoadLine(st, line0) ==
    LET line == Strip(line0)
        parts == Split1(line)
    IN  IF line = "" THEN st
        ELSE IF Len(parts) < 2 THEN st
        ELSE LET raw_id == Strip(parts[1])
                 file_station_name == Strip(parts[2])
                 station_id == DropLast2(raw_id)
                 clim_div == "LA" \o Last2(raw_id)
             IN  [station_dict |-> DictSet(st.station_dict, station_id,
                                           <<file_station_name, clim_div>>),
                  requested_ids |-> Append(st.requested_ids, station_id)]

RECURSIVE LoadLines(_, _)
LoadLines(st, lines) ==
    IF lines = <<>> THEN st ELSE LoadLines(LoadLine(st, Head(lines)), Tail(lines))

load_station_list(lines) ==
    LoadLines([station_dict |-> EmptyDict, requested_ids |-> <<>>], lines)

\* weather_data_fetcher.py: the same loop, the mapping alone
load_stations(lines) == load_station_list(lines).station_dict

(***************************************************************************)
(* Arithmetic on values.  A result <<"err">> stands for a raised TypeError.*)
(***************************************************************************)
Err == <<"err">>
IsErr(v) == Tag(v) = "err"
IsFloat(v) == Tag(v) \in {"num", "nan"}

\* a - b
Sub(a, b) ==
    IF ~(IsFloat(a) /\ IsFloat(b)) THEN Err
    ELSE IF ~(IsNum(a) /\ IsNum(b)) THEN NaN
    ELSE Rat(a[2] * b[3] - b[2] * a[3], a[3] * b[3])

\* a + b
Add(a, b) ==
    IF ~(IsFloat(a) /\ IsFloat(b)) THEN Err
    ELSE IF ~(IsNum(a) /\ IsNum(b)) THEN NaN
    ELSE Rat(a[2] * b[3] + b[2] * a[3], a[3] * b[3])

\* a / b * 100; a zero b is a division by zero
PctOf(a, b) ==
    IF ~(IsFloat(a) /\ IsFloat(b)) THEN Err
    ELSE IF IsNum(b) /\ b[2] = 0 THEN Err
    ELSE IF ~(IsNum(a) /\ IsNum(b)) THEN NaN
    ELSE Rat(a[2] * b[3] * 100, a[3] * b[2])

\* a < b of two numbers
Less(a, b) == a[2] * b[3] < b[2] * a[3]

\* val == -999 and val == 0
IsSentinel(v) == IsNum(v) /\ v = Sentinel
IsZero(v) == IsNum(v) /\ v[2] = 0
\* pd.isna / np.isnan of a scalar
IsNa(v) == Tag(v) \in {"nan", "none", "nat"}

(***************************************************************************)
(* fix_missing, as each script defines it.                                 *)
(***************************************************************************)
\* try: return x, except: return fallback
OrElse(x, fallback) == IF IsErr(x) THEN fallback ELSE x

\* generate_tables.py and weather_summary_with_coordinates.py
fix_missing(val) ==
    IF Eq(val, Str("M")) THEN Sentinel
    ELSE IF Eq(val, Str("T")) THEN Int2Num(0)
    ELSE OrElse(Float(val), val)

\* weather_data_fetcher.py
fetcher_fix_missing(val) ==
    IF Eq(val, Str("M")) THEN NaN
    ELSE IF Eq(val, Str("T")) THEN Int2Num(0)
    ELSE OrElse(Float(val), NaN)

(***************************************************************************)
(* Upstream station entries.  An entry is [meta |-> m, smry |-> y]: m is   *)
(* Absent, or a mapping <<"dict", [name, climdiv, sids, ll]>> whose values *)
(* may be Absent, or a value that is no mapping; y is Absent or a list.    *)
(* The sids of a mapping, when there, is a list.                           *)
(***************************************************************************)
NSlots == 17

Meta(name, climdiv, sids, ll) ==
    <<"dict", [name |-> name, climdiv |-> climdiv, sids |-> sids, ll |-> ll]>>
\* the empty mapping {}
NoMeta == Meta(Absent, Absent, Absent, Absent)
IsMapping(m) == Tag(m) = "dict"
\* station.get('meta', {})
MetaOf(station) == IF station.meta = Absent THEN NoMeta ELSE station.meta

\* d.get(k, default) of a mapping d
Get(d, k, default) == IF d[2][k] = Absent THEN default ELSE d[2][k]
\* bool(v) of a str, a list, a number or None
Truthy(v) ==
    CASE Tag(v) = "str" -> v[2] # ""
      [] Tag(v) = "list" -> Len(v[2]) > 0
      [] Tag(v) = "num" -> v[2] # 0
      [] Tag(v) = "nan" -> TRUE
      [] OTHER -> FALSE

\* n copies of np.nan
RECURSIVE Nans(_)
Nans(n) == IF n <= 0 THEN <<>> ELSE <<NaN>> \o Nans(n - 1)

\* smry after "smry += [np.nan] * (17 - len(smry))"
Padded(smry) == smry \o Nans(NSlots - Len(smry))
\* smry[i], i counted from 0
Slot(smry, i) == smry[i + 1]
\* x[1] if isinstance(x, list) and len(x) > 1 else default
Second(x, default) == IF IsList(x) /\ Len(x[2]) > 1 THEN x[2][2] ELSE default

\* station.get('smry', []) of an entry
SmryOf(station) == IF station.smry = Absent THEN <<>> ELSE station.smry[2]
\* a variant of the padding in place that stores zeros in the entry
PaddedEntry_storing_zeros(station) ==
    IF station.smry = Absent THEN station
    ELSE [station EXCEPT !.smry =
             List([k \in 1..NSlots |-> IF k <= Len(station.smry[2]) THEN station.smry[2][k]
                                       ELSE Int2Num(0)])]

\* the entry after its values array was padded in place
PaddedEntry(station) ==
    IF station.smry = Absent THEN station
    ELSE [station EXCEPT !.smry = List(Padded(station.smry[2]))]

\* station_dict.get(sid, default): default is a pair <<name, division>>
Lookup(dict, sid, default) ==
    IF IsStr(sid) /\ sid[2] \in DOMAIN dict
    THEN <<Str(dict[sid[2]][1]), Str(dict[sid[2]][2])>>
    ELSE default

\* a decoded station: the row, or the exception its decoding raised
Row(r) == [exc |-> "", row |-> r]
Raise(e) == [exc |-> e, row |-> <<>>]

(***************************************************************************)
(* generate_tables.py: process_station_data.                               *)
(***************************************************************************)
out_columns ==
    <<"Station Name", "Station Name (File)", "Climate Division",
      "Avg T-Max", "Avg T-Min", "T-Avg", "T-Avg DFN",
      "Highest T-Max", "Lowest T-Min",
      "HDD", "HDD DFN", "HDD Normal", "Percent of Normal HDD",
      "CDD", "CDD DFN", "CDD Normal", "Percent of Normal CDD",
      "Total P", "Normal P", "P-DFN",
      "1-Day Max", "P-Max Date", "P-Days",
      "Missing T-Avg", "Missing Total P">>

numeric_cols ==
    {"Avg T-Max", "Avg T-Min", "T-Avg", "T-Avg DFN",
     "Highest T-Max", "Lowest T-Min", "HDD", "HDD DFN", "HDD Normal",
     "CDD", "CDD DFN", "CDD Normal", "Total P", "Normal P", "P-DFN",
     "1-Day Max", "P-Days", "Missing T-Avg", "Missing Total P"}

\* a row from the list of its cells, in the order of the columns cols
MkRow(cols, cells) ==
    [c \in {cols[i] : i \in 1..Len(cols)} |->
        cells[CHOOSE i \in 1..Len(cols) : cols[i] = c]]

\* np.nan if (x == -999 or dfn == -999) else x - dfn
NormalOf(x, dfn) == IF IsSentinel(x) \/ IsSentinel(dfn) THEN NaN ELSE Sub(x, dfn)
\* '-' if pd.isna(norm) or norm == 0 else x / norm * 100
StationPct(x, norm) == IF IsNa(norm) \/ IsZero(norm) THEN Str("-") ELSE PctOf(x, norm)

\* pd.to_numeric(v, errors='coerce') of one cell
ToNumeric(v) ==
    CASE Tag(v) = "num" -> v
      [] Tag(v) = "str" -> OrElse(ParseFloat(v[2]), NaN)
      [] OTHER -> NaN

\* YYYYMMDD or YYYY-MM-DD
IsDateStr(s) ==
    \/ Len(s) = 8 /\ DigitsVal(s, 0) >= 0
    \/ /\ Len(s) = 10
       /\ SubSeq(s, 5, 5) = "-" /\ SubSeq(s, 8, 8) = "-"
       /\ DigitsVal(SubSeq(s, 1, 4) \o SubSeq(s, 6, 7) \o SubSeq(s, 9, 10), 0) >= 0
\* the digits of a date string
DateDigits(s) ==
    IF Len(s) = 8 THEN s ELSE SubSeq(s, 1, 4) \o SubSeq(s, 6, 7) \o SubSeq(s, 9, 10)
\* pd.to_datetime(v, errors='coerce') of one cell
ToDatetime(v) ==
    IF IsStr(v) /\ IsDateStr(v[2]) THEN <<"date", DateDigits(v[2])>> ELSE NaT

\* the body of the loop over the stations: the cells of one station's row
process_station(station, dict) ==
    LET meta == MetaOf(station)
        sids == Get(meta, "sids", List(<<None>>))
        sid0 == sids[2][1]
        sid == IF Truthy(sid0) THEN Str(Strip(sid0[2])) ELSE sid0
        id == Lookup(dict, sid, <<Get(meta, "name", Str("Unknown")),
                                  Get(meta, "climdiv", Str("Unknown"))>>)
        file_name == id[1]
        div == id[2]
        name == Get(meta, "name", file_name)
        smry == Padded(SmryOf(station))
        atx == fix_missing(Slot(smry, 0))
        atn == fix_missing(Slot(smry, 1))
        tav == fix_missing(Slot(smry, 2))
        tdfn == fix_missing(Slot(smry, 3))
        htx == fix_missing(Slot(smry, 4))
        ltn == fix_missing(Slot(smry, 5))
        hdd == fix_missing(Slot(smry, 6))
        hdd_dfn == fix_missing(Slot(smry, 7))
        hdd_norm == NormalOf(hdd, hdd_dfn)
        pct_hdd == StationPct(hdd, hdd_norm)
        cdd == fix_missing(Slot(smry, 8))
        cdd_dfn == fix_missing(Slot(smry, 9))
        cdd_norm == NormalOf(cdd, cdd_dfn)
        pct_cdd == StationPct(cdd, cdd_norm)
        total_p == fix_missing(Slot(smry, 10))
        normal_p == fix_missing(Slot(smry, 11))
        p_diff == NormalOf(total_p, normal_p)
        od == fix_missing(Slot(smry, 12))
        pdate == Second(Slot(smry, 13), Str("N/A"))
        pdays == fix_missing(Slot(smry, 14))
        miss_t == Second(Slot(smry, 15), NaN)
        miss_p == Second(Slot(smry, 16), NaN)
    IN  IF ~IsMapping(meta) THEN Raise("AttributeError")
        ELSE IF Len(sids[2]) = 0 THEN Raise("IndexError")
        ELSE IF Truthy(sid0) /\ ~IsStr(sid0) THEN Raise("AttributeError")
        ELSE IF IsErr(hdd_norm) \/ IsErr(cdd_norm) \/ IsErr(p_diff) THEN Raise("TypeError")
        ELSE Row(MkRow(out_columns,
               <<name, file_name, div,
                 atx, atn, tav, tdfn, htx, ltn,
                 hdd, hdd_dfn, hdd_norm, pct_hdd,
                 cdd, cdd_dfn, cdd_norm, pct_cdd,
                 total_p, normal_p, p_diff,
                 od, pdate, pdays,
                 miss_t, miss_p>>))

\* the row as the DataFrame holds it after pd.to_numeric and pd.to_datetime
Coerced(row) ==
    [c \in DOMAIN row |->
        IF c \in numeric_cols THEN ToNumeric(row[c])
        ELSE IF c = "P-Max Date" THEN ToDatetime(row[c])
        ELSE row[c]]

(***************************************************************************)
(* Reductions over a column of a DataFrame (a sequence of rows).           *)
(***************************************************************************)
\* a variant of the replacement that leaves the sentinel in the cell
ReplaceCell_keeping_sentinel(v, x) == v

\* df.replace(-999, x) of one cell and of one row
ReplaceCell(v, x) == IF IsSentinel(v) THEN x ELSE v
ReplaceRow(row, x) == [c \in DOMAIN row |-> ReplaceCell(row[c], x)]
\* df.replace(-999, x)
Replace(rows, x) == [i \in 1..Len(rows) |-> ReplaceRow(rows[i], x)]

\* the cells of column c that a reduction sees: the non-null numbers
RECURSIVE Valid(_, _)
Valid(rows, c) ==
    IF rows = <<>> THEN <<>>
    ELSE (IF IsNum(Head(rows)[c]) THEN <<Head(rows)[c]>> ELSE <<>>) \o Valid(Tail(rows), c)

RECURSIVE SumOf(_)
SumOf(xs) == IF xs = <<>> THEN Int2Num(0) ELSE Add(Head(xs), SumOf(Tail(xs)))

RECURSIVE MaxOf(_)
MaxOf(xs) ==
    IF Len(xs) = 1 THEN xs[1]
    ELSE LET m == MaxOf(Tail(xs)) IN IF Less(m, Head(xs)) THEN Head(xs) ELSE m

RECURSIVE MinOf(_)
MinOf(xs) ==
    IF Len(xs) = 1 THEN xs[1]
    ELSE LET m == MinOf(Tail(xs)) IN IF Less(Head(xs), m) THEN Head(xs) ELSE m

\* gd[c].mean(), gd[c].max(), gd[c].min(): NaN when no cell is valid
Mean(rows, c) ==
    LET xs == Valid(rows, c)
    IN  IF xs = <<>> THEN NaN
        ELSE LET t == SumOf(xs) IN Rat(t[2], t[3] * Len(xs))
Max(rows, c) == LET xs == Valid(rows, c) IN IF xs = <<>> THEN NaN ELSE MaxOf(xs)
\* a variant of the minimum that takes the maximum
Min_taking_max(rows, c) == Max(rows, c)
Min(rows, c) == LET xs == Valid(rows, c) IN IF xs = <<>> THEN NaN ELSE MinOf(xs)

\* (avg / avg_norm * 100) if pd.notna(avg_norm) and avg_norm != 0 else np.nan
SummaryPct(avg, avg_norm) ==
    IF ~IsNa(avg_norm) /\ ~IsZero(avg_norm) THEN PctOf(avg, avg_norm) ELSE NaN

(***************************************************************************)
(* generate_tables.py: create_divisional_summaries, create_state_summary.  *)
(***************************************************************************)
\* the pd.Series of a division summary, given gd, its HDD and its percents of normal
DivSummaryRow(group, gd, hdd, pct_hdd, pct_cdd) ==
    MkRow(out_columns,
      <<Str("Divisional Summary"), Str(""), group[1]["Climate Division"],
        Mean(gd, "Avg T-Max"), Mean(gd, "Avg T-Min"), Mean(gd, "T-Avg"),
        Mean(gd, "T-Avg DFN"), Max(gd, "Highest T-Max"), Min(gd, "Lowest T-Min"),
        hdd, Mean(gd, "HDD DFN"), Mean(gd, "HDD Normal"), pct_hdd,
        Mean(gd, "CDD"), Mean(gd, "CDD DFN"), Mean(gd, "CDD Normal"), pct_cdd,
        Mean(gd, "Total P"), Mean(gd, "Normal P"), Mean(gd, "P-DFN"),
        Max(gd, "1-Day Max"), Str(""), Max(gd, "P-Days"),
        Str(""), Str("")>>)

\* a variant whose percents of normal are the means of the members' percents
create_div_summary_mean_of_percents(group) ==
    DivSummaryRow(group, Replace(group, NaN), Mean(Replace(group, NaN), "HDD"),
                  Mean(Replace(group, NaN), "Percent of Normal HDD"),
                  Mean(Replace(group, NaN), "Percent of Normal CDD"))

\* a variant whose HDD is that of the first member that has one
create_div_summary_first_member(group) ==
    DivSummaryRow(group, Replace(group, NaN),
                  IF Valid(Replace(group, NaN), "HDD") = <<>> THEN NaN
                  ELSE Valid(Replace(group, NaN), "HDD")[1],
                  SummaryPct(Mean(Replace(group, NaN), "HDD"),
                             Mean(Replace(group, NaN), "HDD Normal")),
                  SummaryPct(Mean(Replace(group, NaN), "CDD"),
                             Mean(Replace(group, NaN), "CDD Normal")))

create_div_summary(group) ==
    DivSummaryRow(group, Replace(group, NaN), Mean(Replace(group, NaN), "HDD"),
                  SummaryPct(Mean(Replace(group, NaN), "HDD"),
                             Mean(Replace(group, NaN), "HDD Normal")),
                  SummaryPct(Mean(Replace(group, NaN), "CDD"),
                             Mean(Replace(group, NaN), "CDD Normal")))

\* the rows of rows whose column c holds v, in their order
RECURSIVE Where(_, _, _)
Where(rows, c, v) ==
    IF rows = <<>> THEN <<>>
    ELSE (IF Eq(Head(rows)[c], v) THEN <<Head(rows)>> ELSE <<>>) \o Where(Tail(rows), c, v)

\* the keys of df.groupby('Climate Division'): the division values that are not null
GroupKeys(rows) ==
    {rows[i]["Climate Division"][2] : i \in {j \in 1..Len(rows) : IsStr(rows[j]["Climate Division"])}}

\* a variant of the ordering that lists the keys in descending order
RECURSIVE Sorted_descending(_)
Sorted_descending(keys) ==
    IF keys = {} THEN <<>>
    ELSE LET k == CHOOSE x \in keys : \A y \in keys \ {x} : StrLess(y, x)
         IN  <<k>> \o Sorted_descending(keys \ {k})

\* the keys in ascending order (sort=True)
RECURSIVE Sorted(_)
Sorted(keys) ==
    IF keys = {} THEN <<>>
    ELSE LET k == CHOOSE x \in keys : \A y \in keys \ {x} : StrLess(x, y)
         IN  <<k>> \o Sorted(keys \ {k})

\* for div_code, group in divisions: the group, then its summary row
RECURSIVE Interleaved(_, _)
Interleaved(rows, keys) ==
    IF keys = <<>> THEN <<>>
    ELSE LET group == Where(rows, "Climate Division", Str(Head(keys)))
         IN  group \o <<create_div_summary(group)>> \o Interleaved(rows, Tail(keys))

create_divisional_summaries(rows) == Interleaved(rows, Sorted(GroupKeys(rows)))

state_columns ==
    <<"Station Name", "Climate Division", "Division Name",
      "Avg T-Max", "Avg T-Min", "T-Avg", "T-Avg DFN",
      "Highest T-Max", "Lowest T-Min",
      "HDD", "HDD DFN", "HDD Normal", "Percent of Normal HDD",
      "CDD", "CDD DFN", "CDD Normal", "Percent of Normal CDD",
      "Total P", "Normal P", "P-DFN",
      "1-Day Max", "P-Max Date", "P-Days">>

\* a variant whose percents of normal are the means of the divisions' percents
create_state_summary_mean_of_percents(df_div) ==
    [c \in {state_columns[i] : i \in 1..Len(state_columns)} |->
        CASE c \in {"Percent of Normal HDD", "Percent of Normal CDD"} ->
               Mean(Replace(df_div, NaN), c)
          [] c \in {"Highest T-Max", "1-Day Max", "P-Days"} -> Max(Replace(df_div, NaN), c)
          [] c = "Lowest T-Min" -> Min(Replace(df_div, NaN), c)
          [] c \in {"Station Name", "Division Name"} -> Str("State")
          [] c \in {"Climate Division", "P-Max Date"} -> Str("")
          [] OTHER -> Mean(Replace(df_div, NaN), c)]

create_state_summary(df_div) ==
    LET gd == Replace(df_div, NaN)
        avg_hdd == Mean(gd, "HDD")
        avg_hdd_norm == Mean(gd, "HDD Normal")
        pct_hdd == SummaryPct(avg_hdd, avg_hdd_norm)
        avg_cdd == Mean(gd, "CDD")
        avg_cdd_norm == Mean(gd, "CDD Normal")
        pct_cdd == SummaryPct(avg_cdd, avg_cdd_norm)
    IN  MkRow(state_columns,
          <<Str("State"), Str(""), Str("State"),
            Mean(gd, "Avg T-Max"), Mean(gd, "Avg T-Min"), Mean(gd, "T-Avg"),
            Mean(gd, "T-Avg DFN"), Max(gd, "Highest T-Max"), Min(gd, "Lowest T-Min"),
            avg_hdd, Mean(gd, "HDD DFN"), avg_hdd_norm, pct_hdd,
            avg_cdd, Mean(gd, "CDD DFN"), avg_cdd_norm, pct_cdd,
            Mean(gd, "Total P"), Mean(gd, "Normal P"), Mean(gd, "P-DFN"),
            Max(gd, "1-Day Max"), Str(""), Max(gd, "P-Days")>>)

(***************************************************************************)
(* generate_tables.py: the exporters.                                      *)
(***************************************************************************)
DIVISION_NAMES ==
    [k \in {"LA01", "LA02", "LA03", "LA04", "LA05", "LA06", "LA07", "LA08", "LA09"} |->
        CASE k = "LA01" -> "Northwest" [] k = "LA02" -> "North Central"
          [] k = "LA03" -> "Northeast" [] k = "LA04" -> "West Central"
          [] k = "LA05" -> "Central" [] k = "LA06" -> "East Central"
          [] k = "LA07" -> "Southwest" [] k = "LA08" -> "South Central"
          [] k = "LA09" -> "Southeast"]

\* df[c].map(DIVISION_NAMES).fillna('Unknown') of one cell
DivisionName(v) ==
    IF IsStr(v) /\ v[2] \in DOMAIN DIVISION_NAMES THEN Str(DIVISION_NAMES[v[2]])
    ELSE Str("Unknown")

\* row with one more column, with a column renamed, with columns dropped
WithCol(row, c, v) == [x \in DOMAIN row \cup {c} |-> IF x = c THEN v ELSE row[x]]
Renamed(row, a, b) ==
    [x \in (DOMAIN row \ {a}) \cup {b} |-> IF x = b THEN row[a] ELSE row[x]]
Dropped(row, cs) == [x \in DOMAIN row \ cs |-> row[x]]
\* a row given the columns cs: what it lacks is NaN (pd.concat)
Aligned(row, cs) == [x \in cs |-> IF x \in DOMAIN row THEN row[x] ELSE NaN]
\* df[c].replace(a, b) of one row
ReplacedIn(row, c, a, b) == [row EXCEPT ![c] = IF Eq(@, a) THEN b ELSE @]
\* df.where(pd.notnull(df), None) of one row
NullsToNone(row) == [c \in DOMAIN row |-> IF IsNa(row[c]) THEN None ELSE row[c]]

\* df_final[df_final['Station Name'] == 'Divisional Summary'], with 'Division Name'
DivisionRows(final) ==
    LET d == Where(final, "Station Name", Str("Divisional Summary"))
    IN  [i \in 1..Len(d) |->
            WithCol(d[i], "Division Name", DivisionName(d[i]["Climate Division"]))]

\* df_div of export_to_excel: the division rows, then the state row
ExcelDivisions(final) ==
    LET d == DivisionRows(final)
    IN  d \o <<Aligned(create_state_summary(d), DOMAIN d[1])>>

\* the sheet 'Summary'
SummarySheet(final) ==
    [i \in 1..Len(final) |->
        NullsToNone(Renamed(
            ReplacedIn(ReplaceRow(final[i], Str("-")), "Station Name",
                       Str("Divisional Summary"), Str("Division")),
            "Station Name", "Stations"))]

\* the sheet 'Division Summaries'
DivisionSheet(final) ==
    LET d == ExcelDivisions(final)
    IN  [i \in 1..Len(d) |->
            NullsToNone(Renamed(
                Dropped(ReplaceRow(d[i], Str("-")),
                        {"Station Name", "P-Max Date", "Missing T-Avg", "Missing Total P"}),
                "Division Name", "Divisions"))]

\* the stations CSV and the divisions CSV of export_to_csv; the table of export_to_html
CsvStations(final) == final
CsvDivisions(final) == Where(final, "Station Name", Str("Divisional Summary"))
HtmlTable(final) == final

(***************************************************************************)
(* weather_data_fetcher.py: process_data, calculate_division_summaries.    *)
(* The ll of a mapping, when there, is a list of two.                      *)
(***************************************************************************)
coord_columns ==
    <<"Station Name", "Station Name (File)", "Climate Division", "Latitude", "Longitude",
      "Avg T-Max", "Avg T-Min", "T-Avg", "T-Avg DFN", "Highest T-Max", "Lowest T-Min",
      "HDD", "HDD DFN", "CDD", "CDD DFN", "Total P", "Normal P", "P-DFN",
      "1-Day Max", "P-Max Date", "P-Days", "Missing T-Avg", "Missing Total P">>

\* sids[0].strip() if sids else None, of a list sids whose first item is a str
LookupId(sids) == IF Truthy(sids) THEN Str(Strip(sids[2][1][2])) ELSE None

\* the directory's identity "if lookup_id and lookup_id in stations", else the default
Resolve(dict, lookup_id, default) ==
    IF Truthy(lookup_id) THEN Lookup(dict, lookup_id, default) ELSE default

\* datetime.strptime(s, '%Y%m%d').strftime('%m/%d')
MonthDay(s) == SubSeq(s, 5, 6) \o "/" \o SubSeq(s, 7, 8)

\* total_p - normal_p if not np.isnan(total_p) and not np.isnan(normal_p) else np.nan
FetcherDfn(total_p, normal_p) ==
    IF ~IsNa(total_p) /\ ~IsNa(normal_p) THEN Sub(total_p, normal_p) ELSE NaN

process_data_station(station, dict) ==
    LET meta == MetaOf(station)
        sids == Get(meta, "sids", List(<<>>))
        lookup_id == LookupId(sids)
        latlon == Get(meta, "ll", List(<<None, None>>))
        id == Resolve(dict, lookup_id, <<Get(meta, "name", Str("Unknown")),
                                         Get(meta, "climdiv", Str("Unknown"))>>)
        file_name == id[1]
        clim_div == id[2]
        api_name == Get(meta, "name", file_name)
        summary == Padded(SmryOf(station))
        total_p == fetcher_fix_missing(Slot(summary, 10))
        normal_p == fetcher_fix_missing(Slot(summary, 11))
        pcpn_dfn == FetcherDfn(total_p, normal_p)
        raw_date == Second(Slot(summary, 13), None)
        p_max_date == IF Truthy(raw_date) THEN Str(MonthDay(raw_date[2])) ELSE raw_date
        missing_tavg == Second(Slot(summary, 15), Int2Num(0))
        missing_totalp == Second(Slot(summary, 16), Int2Num(0))
    IN  IF ~IsMapping(meta) THEN Raise("AttributeError")
        ELSE IF Truthy(sids) /\ ~IsStr(sids[2][1]) THEN Raise("AttributeError")
        ELSE IF Truthy(raw_date) /\ ~IsStr(raw_date) THEN Raise("TypeError")
        ELSE IF Truthy(raw_date) /\ ~(Len(raw_date[2]) = 8 /\ IsDateStr(raw_date[2]))
             THEN Raise("ValueError")
        ELSE Row(MkRow(coord_columns,
               <<api_name, file_name, clim_div,
                 IF Truthy(latlon[2][1]) THEN latlon[2][1] ELSE NaN,
                 IF Truthy(latlon[2][2]) THEN latlon[2][2] ELSE NaN,
                 fetcher_fix_missing(Slot(summary, 0)), fetcher_fix_missing(Slot(summary, 1)),
                 fetcher_fix_missing(Slot(summary, 2)), fetcher_fix_missing(Slot(summary, 3)),
                 fetcher_fix_missing(Slot(summary, 4)), fetcher_fix_missing(Slot(summary, 5)),
                 fetcher_fix_missing(Slot(summary, 6)), fetcher_fix_missing(Slot(summary, 7)),
                 fetcher_fix_missing(Slot(summary, 8)), fetcher_fix_missing(Slot(summary, 9)),
                 total_p, normal_p, pcpn_dfn,
                 fetcher_fix_missing(Slot(summary, 12)), p_max_date,
                 fetcher_fix_missing(Slot(summary, 14)),
                 missing_tavg, missing_totalp>>))

summary_columns ==
    <<"Station Name", "Climate Division",
      "Avg T-Max", "Avg T-Min", "T-Avg", "T-Avg DFN", "Highest T-Max", "Lowest T-Min",
      "HDD", "CDD", "Total P", "P-DFN", "1-Day Max", "P-Days">>

\* the summary dict of the rows d, under the given name and division code
FetcherSummary(name, code, d) ==
    MkRow(summary_columns,
      <<Str(name), Str(code),
        Mean(d, "Avg T-Max"), Mean(d, "Avg T-Min"), Mean(d, "T-Avg"), Mean(d, "T-Avg DFN"),
        Max(d, "Highest T-Max"), Min(d, "Lowest T-Min"),
        Mean(d, "HDD"), Mean(d, "CDD"), Mean(d, "Total P"), Mean(d, "P-DFN"),
        Max(d, "1-Day Max"), Max(d, "P-Days")>>)

\* DIVISIONS.items(): the codes in the order the dict lists them
DivisionCodes == <<"LA01", "LA02", "LA03", "LA04", "LA05", "LA06", "LA07", "LA08", "LA09">>

\* for div_code, div_name in DIVISIONS.items(): the summaries of the divisions with rows
RECURSIVE FetcherDivisions(_, _)
FetcherDivisions(rows, codes) ==
    IF codes = <<>> THEN <<>>
    ELSE LET div_data == Where(rows, "Climate Division", Str(Head(codes)))
         IN  (IF Len(div_data) = 0 THEN <<>>
              ELSE <<FetcherSummary(DIVISION_NAMES[Head(codes)] \o " Division",
                                    Head(codes), div_data)>>)
             \o FetcherDivisions(rows, Tail(codes))

\* the division summaries, then the statewide summary over all the station rows
calculate_division_summaries(rows) ==
    FetcherDivisions(rows, DivisionCodes) \o <<FetcherSummary("STATE", "LA", rows)>>

(***************************************************************************)
(* weather_summary_with_coordinates.py: the loop over the stations.        *)
(***************************************************************************)
script_station(station, dict) ==
    LET meta == MetaOf(station)
        sids == Get(meta, "sids", List(<<>>))
        lookup_id == LookupId(sids)
        latlon == Get(meta, "ll", List(<<None, None>>))
        id == Resolve(dict, lookup_id, <<Get(meta, "name", Str("Unknown Station")),
                                         Get(meta, "climdiv", Str("Unknown Division"))>>)
        file_station_name == id[1]
        clim_div == id[2]
        api_station_name == Get(meta, "name", file_station_name)
        summary == Padded(SmryOf(station))
        pcpn_dfn == Sub(fix_missing(Slot(summary, 10)), fix_missing(Slot(summary, 11)))
        p_max_date == Second(Slot(summary, 13), Str("N/A"))
        missing_tavg == Second(Slot(summary, 15), NaN)
        missing_totalp == Second(Slot(summary, 16), NaN)
    IN  IF ~IsMapping(meta) THEN Raise("AttributeError")
        ELSE IF Truthy(sids) /\ ~IsStr(sids[2][1]) THEN Raise("AttributeError")
        ELSE IF IsErr(pcpn_dfn) THEN Raise("TypeError")
        ELSE Row(MkRow(coord_columns,
               <<api_station_name, file_station_name, clim_div,
                 latlon[2][1], latlon[2][2],
                 fix_missing(Slot(summary, 0)), fix_missing(Slot(summary, 1)),
                 fix_missing(Slot(summary, 2)), fix_missing(Slot(summary, 3)),
                 fix_missing(Slot(summary, 4)), fix_missing(Slot(summary, 5)),
                 fix_missing(Slot(summary, 6)), fix_missing(Slot(summary, 7)),
                 fix_missing(Slot(summary, 8)), fix_missing(Slot(summary, 9)),
                 fix_missing(Slot(summary, 10)), fix_missing(Slot(summary, 11)),
                 pcpn_dfn, fix_missing(Slot(summary, 12)), p_max_date,
                 fix_missing(Slot(summary, 14)),
                 missing_tavg, missing_totalp>>))

(***************************************************************************)
(* The inputs of a run: the directory file and the upstream's answer.      *)
(***************************************************************************)
Answer(entries) == [ok |-> TRUE, data |-> entries]
Unreachable == [ok |-> FALSE, data |-> <<>>]

\* the directory of the aggregation runs: AX in LA01, BR and CL in LA02
StdLines == <<"AX01 Alexandria", "", "BR02  Baton Rouge", "CL02 Clinton 5 SE">>

\* lines a directory file may hold
DirLines ==
    {"AX01 Alexandria", "AX02 Alex Two", "  BR02   Baton  Rouge  ", "", "ZZ09", "Q Short"}

\* the 17 values of a station: slots 0..16 of the request's element list
Smry(atx, atn, tav, tdfn, htx, ltn, hdd, hdfn, cdd, cdfn, tp, np, od, md, pdays, tmc, pmc) ==
    List(<<atx, atn, tav, tdfn, htx, ltn, hdd, hdfn, cdd, cdfn, tp, np, od, md, pdays, tmc, pmc>>)

Pair(a, b) == List(<<a, b>>)

\* division LA01 by the directory: HDD 10, normal 20; CDD normal 0
StationA1 ==
    [meta |-> Meta(Str("ALEXANDRIA"), Str("LA05"), List(<<Str("AX"), Str("USC1")>>), Absent),
     smry |-> Smry(Str("70"), Str("50"), Str("60"), Str("M"), Str("80"), Str("40"),
                   Str("10"), Str("-10"), Str("4"), Str("4"),
                   Str("0.82"), Str("1.00"), Str("0.5"),
                   Pair(Str("0.5"), Str("20260115")), Str("3"),
                   Pair(Str("60"), Int2Num(0)), Pair(Str("0.82"), Int2Num(1)))]
\* division LA01, the identifier padded with blanks: HDD 30, normal 20
StationA2 ==
    [meta |-> Meta(Str("ALEX 2"), Absent, List(<<Str(" AX ")>>), Absent),
     smry |-> Smry(Str("74"), Str("52"), Str("63"), Str("-1"), Str("85"), Str("M"),
                   Str("30"), Str("10"), Str("M"), Str("M"),
                   Str("T"), Str("1.50"), Str("T"),
                   Str("M"), Str("0"),
                   Pair(Str("63"), Int2Num(2)), Str("T"))]
\* division LA01, a short values array: HDD 20, normal 10
StationA3 ==
    [meta |-> Meta(Absent, Absent, List(<<Str("AX")>>), Absent),
     smry |-> List(<<Str("66"), Str("48"), Str("57"), Str("M"), Str("78"), Str("35"),
                     Str("20"), Str("10")>>)]
\* division LA01, everything missing
StationAM ==
    [meta |-> Meta(Str("ALEX M"), Str("LA01"), List(<<Str("AX")>>),
                   List(<<Int2Num(-92), Int2Num(31)>>)),
     smry |-> Smry(Str("M"), Str("M"), Str("M"), Str("M"), Str("M"), Str("M"),
                   Str("M"), Str("M"), Str("M"), Str("M"),
                   Str("M"), Str("M"), Str("M"),
                   Str("M"), Str("M"), Str("M"), Str("M"))]
\* division LA02 by the directory: HDD 5, normal 10
StationB ==
    [meta |-> Meta(Str("BATON ROUGE"), Str("LA06"), List(<<Str("BR")>>), Absent),
     smry |-> Smry(Str("90"), Str("60"), Str("75"), Str("2"), Str("95"), Str("55"),
                   Str("5"), Str("-5"), Str("12"), Str("2"),
                   Str("2.5"), Str("M"), Str("1.25"),
                   Pair(Str("1.25"), Str("20260116")), Str("5"),
                   Pair(Str("75"), Int2Num(0)), Pair(Str("2.5"), Int2Num(0)))]
\* an identifier the directory does not hold: the upstream's name and division
StationU ==
    [meta |-> Meta(Str("KENNER"), Str("LA09"), List(<<Str("KN")>>), Absent),
     smry |-> Smry(Str("80"), Str("64"), Str("72"), Str("0"), Str("88"), Str("58"),
                   Str("0"), Str("0"), Str("20"), Str("5"),
                   Str("0"), Str("0.25"), Int2Num(0),
                   Str("2026-01-14"), Int2Num(0), Str("72"), None)]
\* no identifier list, and the upstream's division is null
StationN ==
    [meta |-> Meta(Str("NONAME"), None, Absent, Absent),
     smry |-> Smry(Str("60"), Str("40"), Str("50"), Str("3"), Str("66"), Str("30"),
                   Str("40"), Str("M"), Str("0"), Str("M"),
                   Str("1"), Str("1"), Str("1"),
                   Pair(Str("1"), Str("20260114")), Str("1"),
                   Pair(Str("50"), Int2Num(3)), Pair(Str("1"), Int2Num(4)))]
\* an empty identifier list
StationE ==
    [meta |-> Meta(Str("EMPTY"), Str("LA02"), List(<<>>), Absent),
     smry |-> Smry(Str("61"), Str("41"), Str("51"), Str("3"), Str("67"), Str("31"),
                   Str("7"), Str("1"), Str("0"), Str("0"),
                   Str("1"), Str("1"), Str("1"),
                   Pair(Str("1"), Str("20260114")), Str("1"),
                   Pair(Str("51"), Int2Num(0)), Pair(Str("1"), Int2Num(0)))]
\* no metadata block and no values
StationX == [meta |-> Absent, smry |-> Absent]

\* a values array of 18 slots
StationL ==
    [meta |-> Meta(Str("BATON ROUGE L"), Absent, List(<<Str("BR")>>), Absent),
     smry |-> List(StationB.smry[2] \o <<Str("1")>>)]
\* a metadata block that is a list, not a mapping
StationQ ==
    [meta |-> List(<<Str("KENNER"), Str("LA09")>>),
     smry |-> StationU.smry]

\* division LA02 by the directory: HDD 40 and CDD 6 with their departures missing
StationC ==
    [meta |-> Meta(Str("CLINTON"), Str("LA02"), List(<<Str("CL")>>), Absent),
     smry |-> Smry(Str("88"), Str("62"), Str("75"), Str("1"), Str("93"), Str("57"),
                   Str("40"), Str("M"), Str("6"), Str("M"),
                   Str("3.1"), Str("2.9"), Str("1.5"),
                   Pair(Str("1.5"), Str("20260117")), Str("4"),
                   Pair(Str("75"), Int2Num(0)), Pair(Str("3.1"), Int2Num(0)))]

Stations ==
    {StationA1, StationA2, StationA3, StationAM, StationB,
     StationU, StationN, StationE, StationX}

\* the entries whose shape is not the documented one
Malformed == {StationL, StationQ}

\* the stations whose decoding the report generator survives with a division code
\* or a null division: the ones it groups
Grouped ==
    {StationA1, StationA2, StationA3, StationAM, StationB, StationU, StationN}

\* the sequences of at most n members of S
RECURSIVE SeqsUpTo(_, _)
SeqsUpTo(S, n) ==
    IF n = 0 THEN {<<>>}
    ELSE LET shorter == SeqsUpTo(S, n - 1)
         IN  shorter \cup {Append(q, x) : q \in {r \in shorter : Len(r) = n - 1}, x \in S}

(***************************************************************************)
(* The runs.                                                               *)
(***************************************************************************)
Progs == {"generate_tables", "weather_data_fetcher", "weather_summary_with_coordinates"}
Formats == {"excel", "csv", "html", "all"}

Start ==
    /\ prog \in Progs
    /\ pc = "start"
    /\ fmt = ""
    /\ station_dict = EmptyDict
    /\ requested_ids = <<>>
    /\ stations_data = <<>>
    /\ df = <<>>
    /\ df_final = <<>>
    /\ excel_df_div = <<>>
    /\ div_summary = <<>>
    /\ out = EmptyDict
    /\ err = ""

\* the aggregation runs: one directory; the report generator gets every answer of at
\* most MaxStations of the stations it groups, every station alone and the answers
\* whose second station is malformed or fails, and the two stations of LA02; the station fetcher every answer of fewer
\* stations and the three stations of two divisions; the one-shot script every
\* station alone
Init ==
    /\ Start
    /\ \/ /\ station_file = File(StdLines)
          /\ prog = "generate_tables"
          /\ api \in {Unreachable, Answer(<<StationA1, StationE>>),
                      Answer(<<StationA1, StationQ>>), Answer(<<StationA1, StationL>>),
                      Answer(<<StationC>>), Answer(<<StationB, StationC>>)}
                      \cup {Answer(<<x>>) : x \in Stations \cup Malformed}
                      \cup {Answer(q) : q \in SeqsUpTo(Grouped, MaxStations)}
       \/ /\ station_file = File(StdLines)
          /\ prog = "weather_data_fetcher"
          /\ api \in {Unreachable, Answer(<<StationA1, StationA2, StationB>>)}
                      \cup {Answer(<<x>>) : x \in Malformed}
                      \cup {Answer(q) : q \in SeqsUpTo(Stations, MaxStations - 1)}
       \/ /\ station_file = File(StdLines)
          /\ prog = "weather_summary_with_coordinates"
          /\ api \in {Unreachable, Answer(<<>>)}
                      \cup {Answer(<<x>>) : x \in Stations \cup Malformed}
       \/ /\ station_file = NoFile
          /\ api \in {Unreachable, Answer(<<StationA1>>)}

\* the directory runs: every file of at most MaxLines lines, two answers
InitDir ==
    /\ Start
    /\ station_file \in {NoFile} \cup {File(q) : q \in SeqsUpTo(DirLines, MaxLines)}
    /\ api \in {Answer(<<StationA1, StationB>>), Answer(<<StationU>>)}

\* a variant in which the run goes on to the request after the error e
Fail_going_on(e) == pc' = "fetch" /\ err' = e

\* the run ends with the exception or exit e
Fail(e) == pc' = "failed" /\ err' = e

\* the decoded stations, by the loop of each script
DecodedTables(entries, dict) == [i \in 1..Len(entries) |-> process_station(entries[i], dict)]
DecodedFetcher(entries, dict) ==
    [i \in 1..Len(entries) |-> process_data_station(entries[i], dict)]
DecodedScript(entries, dict) == [i \in 1..Len(entries) |-> script_station(entries[i], dict)]
\* the first station whose decoding raises, 0 when none does
FirstRaise(res) ==
    IF \E i \in 1..Len(res) : res[i].exc # ""
    THEN CHOOSE i \in 1..Len(res) : res[i].exc # "" /\ \A j \in 1..(i - 1) : res[j].exc = ""
    ELSE 0
\* the entries after the loop padded the values arrays of the first n in place
PaddedFirst(entries, n) ==
    [i \in 1..Len(entries) |-> IF i <= n THEN PaddedEntry(entries[i]) ELSE entries[i]]

------------------------------------------------------------------------------
(* generate_tables.py: main *)

LoadStationList ==
    /\ prog = "generate_tables" /\ pc = "start"
    /\ IF ~station_file.exists
       THEN /\ Fail("SystemExit")
            /\ UNCHANGED <<station_dict, requested_ids>>
       ELSE LET r == load_station_list(station_file.lines)
            IN  /\ station_dict' = r.station_dict
                /\ requested_ids' = r.requested_ids
                /\ pc' = "fetch"
                /\ err' = err
    /\ UNCHANGED <<prog, station_file, api, fmt, stations_data, df, df_final, excel_df_div,
                   div_summary, out>>

FetchAcisData ==
    /\ prog = "generate_tables" /\ pc = "fetch"
    /\ IF ~api.ok \/ api.data = <<>>
       THEN Fail("SystemExit") /\ UNCHANGED stations_data
       ELSE stations_data' = api.data /\ pc' = "process" /\ err' = err
    /\ UNCHANGED <<prog, station_file, api, fmt, station_dict, requested_ids, df,
                   df_final, excel_df_div, div_summary, out>>

\* the loop ends at station k with an exception, or k = 0 and the frame is built
TablesLoop(res, k) ==
    IF k # 0
    THEN /\ Fail(res[k].exc)
         /\ stations_data' =
              PaddedFirst(stations_data, IF res[k].exc = "TypeError" THEN k ELSE k - 1)
         /\ df' = df
    ELSE /\ df' = [i \in 1..Len(res) |-> Coerced(res[i].row)]
         /\ stations_data' = PaddedFirst(stations_data, Len(stations_data))
         /\ pc' = "summaries"
         /\ err' = err

ProcessStationData ==
    /\ prog = "generate_tables" /\ pc = "process"
    /\ TablesLoop(DecodedTables(stations_data, station_dict),
                  FirstRaise(DecodedTables(stations_data, station_dict)))
    /\ UNCHANGED <<prog, station_file, api, fmt, station_dict, requested_ids,
                   df_final, excel_df_div, div_summary, out>>

CreateDivisionalSummaries ==
    /\ prog = "generate_tables" /\ pc = "summaries"
    /\ IF GroupKeys(df) = {}
       THEN Fail("ValueError") /\ df_final' = df_final
       ELSE df_final' = create_divisional_summaries(df) /\ pc' = "export" /\ err' = err
    /\ UNCHANGED <<prog, station_file, api, fmt, station_dict, requested_ids,
                   stations_data, df, excel_df_div, div_summary, out>>

\* the files main writes for args.format = f
Exported(final, f) ==
    [k \in (IF f \in {"excel", "all"} THEN {"xlsx:Summary", "xlsx:Division Summaries"} ELSE {})
       \cup (IF f \in {"csv", "all"} THEN {"csv:stations", "csv:divisions"} ELSE {})
       \cup (IF f \in {"html", "all"} THEN {"html"} ELSE {}) |->
        CASE k = "xlsx:Summary" -> SummarySheet(final)
          [] k = "xlsx:Division Summaries" -> DivisionSheet(final)
          [] k = "csv:stations" -> CsvStations(final)
          [] k = "csv:divisions" -> CsvDivisions(final)
          [] k = "html" -> HtmlTable(final)]

MainExport(f) ==
    /\ prog = "generate_tables" /\ pc = "export"
    /\ fmt' = f
    /\ excel_df_div' = IF f \in {"excel", "all"} THEN ExcelDivisions(df_final) ELSE excel_df_div
    /\ out' = Exported(df_final, f)
    /\ pc' = "done"
    /\ UNCHANGED <<prog, station_file, api, station_dict, requested_ids,
                   stations_data, df, df_final, div_summary, err>>

------------------------------------------------------------------------------
(* weather_data_fetcher.py: main *)

LoadStations ==
    /\ prog = "weather_data_fetcher" /\ pc = "start"
    /\ IF ~station_file.exists
       THEN Fail("FileNotFoundError") /\ UNCHANGED station_dict
       ELSE /\ station_dict' = load_stations(station_file.lines)
            /\ pc' = "fetch"
            /\ err' = err
    /\ UNCHANGED <<prog, station_file, api, fmt, requested_ids, stations_data, df,
                   df_final, excel_df_div, div_summary, out>>

FetchStationData ==
    /\ prog = "weather_data_fetcher" /\ pc = "fetch"
    /\ IF ~api.ok
       THEN Fail("SystemExit") /\ UNCHANGED stations_data
       ELSE stations_data' = api.data /\ pc' = "process" /\ err' = err
    /\ UNCHANGED <<prog, station_file, api, fmt, station_dict, requested_ids, df,
                   df_final, excel_df_div, div_summary, out>>

FetcherLoop(res, k) ==
    IF k # 0
    THEN /\ Fail(res[k].exc)
         /\ stations_data' = PaddedFirst(stations_data, k)
         /\ df' = df
    ELSE /\ df' = [i \in 1..Len(res) |-> res[i].row]
         /\ stations_data' = PaddedFirst(stations_data, Len(stations_data))
         /\ pc' = IF stations_data = <<>> THEN "done" ELSE "summaries"
         /\ err' = err

ProcessData ==
    /\ prog = "weather_data_fetcher" /\ pc = "process"
    /\ FetcherLoop(DecodedFetcher(stations_data, station_dict),
                   FirstRaise(DecodedFetcher(stations_data, station_dict)))
    /\ UNCHANGED <<prog, station_file, api, fmt, station_dict, requested_ids,
                   df_final, excel_df_div, div_summary, out>>

CalculateDivisionSummaries ==
    /\ prog = "weather_data_fetcher" /\ pc = "summaries"
    /\ div_summary' = calculate_division_summaries(df)
    /\ pc' = "save"
    /\ UNCHANGED <<prog, station_file, api, fmt, station_dict, requested_ids,
                   stations_data, df, df_final, excel_df_div, out, err>>

SaveOutputs ==
    /\ prog = "weather_data_fetcher" /\ pc = "save"
    /\ out' = [k \in {"csv:stations", "html:stations", "csv:divisions", "html:divisions"} |->
                 IF k \in {"csv:stations", "html:stations"} THEN df ELSE div_summary]
    /\ pc' = "done"
    /\ UNCHANGED <<prog, station_file, api, fmt, station_dict, requested_ids,
                   stations_data, df, df_final, excel_df_div, div_summary, err>>

------------------------------------------------------------------------------
(* weather_summary_with_coordinates.py: the script, top to bottom *)

ScriptLoad ==
    /\ prog = "weather_summary_with_coordinates" /\ pc = "start"
    /\ IF ~station_file.exists
       THEN Fail("FileNotFoundError") /\ UNCHANGED <<station_dict, requested_ids>>
       ELSE LET r == load_station_list(station_file.lines)
            IN  /\ station_dict' = r.station_dict
                /\ requested_ids' = r.requested_ids
                /\ pc' = "fetch"
                /\ err' = err
    /\ UNCHANGED <<prog, station_file, api, fmt, stations_data, df, df_final, excel_df_div,
                   div_summary, out>>

ScriptFetch ==
    /\ prog = "weather_summary_with_coordinates" /\ pc = "fetch"
    /\ IF ~api.ok \/ api.data = <<>>
       THEN Fail("SystemExit") /\ UNCHANGED stations_data
       ELSE stations_data' = api.data /\ pc' = "process" /\ err' = err
    /\ UNCHANGED <<prog, station_file, api, fmt, station_dict, requested_ids, df,
                   df_final, excel_df_div, div_summary, out>>

ScriptLoop(res, k) ==
    IF k # 0
    THEN /\ Fail(res[k].exc)
         /\ stations_data' = PaddedFirst(stations_data, k)
         /\ UNCHANGED <<df, out>>
    ELSE /\ df' = [i \in 1..Len(res) |-> res[i].row]
         /\ stations_data' = PaddedFirst(stations_data, Len(stations_data))
         /\ out' = [f \in {"csv:weather_summary_with_coords"} |-> df']
         /\ pc' = "done"
         /\ err' = err

ScriptProcess ==
    /\ prog = "weather_summary_with_coordinates" /\ pc = "process"
    /\ ScriptLoop(DecodedScript(stations_data, station_dict),
                  FirstRaise(DecodedScript(stations_data, station_dict)))
    /\ UNCHANGED <<prog, station_file, api, fmt, station_dict, requested_ids,
                   df_final, excel_df_div, div_summary>>

Next ==
    \/ LoadStationList
    \/ FetchAcisData
    \/ ProcessStationData
    \/ CreateDivisionalSummaries
    \/ \E f \in Formats : MainExport(f)
    \/ LoadStations
    \/ FetchStationData
    \/ ProcessData
    \/ CalculateDivisionSummaries
    \/ SaveOutputs
    \/ ScriptLoad
    \/ ScriptFetch
    \/ ScriptProcess

Spec == Init /\ [][Next]_vars
SpecDir == InitDir /\ [][Next]_vars

------------------------------------------------------------------------------
(***************************************************************************)
(* Properties.  Their arithmetic is on cross-multiplied integers, apart    *)
(* from Mean, Max, Min and PctOf above.                                    *)
(***************************************************************************)
Tables == prog = "generate_tables"
Fetcher == prog = "weather_data_fetcher"

\* the positions among I whose cell of column c is a number other than the sentinel
Present(rows, c, I) ==
    {i \in I : IsNum(rows[i][c]) /\ ~(rows[i][c][2] = MISSING /\ rows[i][c][3] = 1)}

\* the fraction t plus the number v, as a fraction <<n, d>>
AddCell(t, v) == <<t[1] * v[3] + v[2] * t[2], t[2] * v[3]>>

\* the sum of the cells of column c at the positions I
RECURSIVE Total(_, _, _)
Total(rows, c, I) ==
    IF I = {} THEN <<0, 1>>
    ELSE AddCell(Total(rows, c, I \ {CHOOSE i \in I : TRUE}), rows[CHOOSE i \in I : TRUE][c])

\* v is the mean of k numbers whose sum is t: absent when there is none
IsMean(v, t, k) == IF k = 0 THEN v = NaN ELSE IsNum(v) /\ v[2] * t[2] * k = t[1] * v[3]
\* v is the mean of the present cells of column c at the positions I
MeanOver(v, rows, c, I) ==
    IsMean(v, Total(rows, c, Present(rows, c, I)), Cardinality(Present(rows, c, I)))

\* p is (ta / ka) / (tn / kn) * 100, absent when a mean is absent or tn / kn is zero
IsPct(p, ta, ka, tn, kn) ==
    IF kn = 0 \/ tn[1] = 0 \/ ka = 0 THEN p = NaN
    ELSE IsNum(p) /\ p[2] * ta[2] * ka * tn[1] = 100 * ta[1] * tn[2] * kn * p[3]
\* p is the percent that the mean of column a is of the mean of column n, over I
PctOver(p, rows, a, n, I) ==
    IsPct(p, Total(rows, a, Present(rows, a, I)), Cardinality(Present(rows, a, I)),
          Total(rows, n, Present(rows, n, I)), Cardinality(Present(rows, n, I)))

\* v is the largest (sign = 1) or smallest (sign = -1) of the cells at the positions P
IsExtreme(v, rows, c, P, sign) ==
    IF P = {} THEN v = NaN
    ELSE /\ IsNum(v)
         /\ \E i \in P : rows[i][c] = v
         /\ \A i \in P : sign * rows[i][c][2] * v[3] <= sign * v[2] * rows[i][c][3]
MaxOver(v, rows, c, I) == IsExtreme(v, rows, c, Present(rows, c, I), 1)
MinOver(v, rows, c, I) == IsExtreme(v, rows, c, Present(rows, c, I), -1)

DegreeDays == {"HDD", "CDD"}
PctCol(t) == "Percent of Normal " \o t
NormalCol(t) == t \o " Normal"
MeanFields ==
    {"Avg T-Max", "Avg T-Min", "T-Avg", "T-Avg DFN", "HDD", "HDD DFN", "HDD Normal",
     "CDD", "CDD DFN", "CDD Normal", "Total P", "Normal P", "P-DFN"}
MissingCounts == {"Missing T-Avg", "Missing Total P"}

IsSummaryRow(r) == Eq(r["Station Name"], Str("Divisional Summary"))
\* the positions of the division summaries in df_final
SummaryIdx == {i \in 1..Len(df_final) : IsSummaryRow(df_final[i])}
\* the positions in df of the stations of the division code
Members(code) == {j \in 1..Len(df) : Eq(df[j]["Climate Division"], code)}
\* the members of the division summarised at position i of df_final
MembersAt(i) == Members(df_final[i]["Climate Division"])
\* the division rows and the state row of the sheet of division summaries
DivIdx == 1..(Len(excel_df_div) - 1)
StateRow == excel_df_div[Len(excel_df_div)]
\* the upstream answered with exactly the stations of S, in some order
Answered(S) ==
    api.ok /\ Len(api.data) = Cardinality(S) /\ {api.data[i] : i \in 1..Len(api.data)} = S

\* C1 (as stated): the state percent of normal of HDD and of CDD is the arithmetic
\* mean of the percents of normal of the division rows
C1_StatePctIsMeanOfDivisionPcts ==
    (Tables /\ excel_df_div # <<>>) =>
        \A t \in DegreeDays : MeanOver(StateRow[PctCol(t)], excel_df_div, PctCol(t), DivIdx)

\* C1 (amended): the state percent of normal of HDD and of CDD is the mean of the
\* division rows' degree days over the mean of the division rows' normals, times
\* 100; two stations with HDD 10 and 30, normals 20 and 20, in one division and one
\* with HDD 5, normal 10, in another give division percents 100 and 50 and the
\* state percent 12.5 / 15 * 100 = 250/3
C1_StatePctIsRatioOfDivisionMeans ==
    (Tables /\ excel_df_div # <<>>) =>
        /\ \A t \in DegreeDays :
              PctOver(StateRow[PctCol(t)], excel_df_div, t, NormalCol(t), DivIdx)
        /\ Answered({StationA1, StationA2, StationB}) =>
              /\ excel_df_div[1]["Percent of Normal HDD"] = Int2Num(100)
              /\ excel_df_div[2]["Percent of Normal HDD"] = Int2Num(50)
              /\ StateRow["Percent of Normal HDD"] = <<"num", 250, 3>>

\* the three stations of the scenario were exported and the state percent is 250/3
C1_ScenarioExported ==
    /\ Tables /\ pc = "done" /\ Len(excel_df_div) = 3
    /\ Answered({StationA1, StationA2, StationB})
    /\ StateRow["HDD"] = <<"num", 25, 2>> /\ StateRow["HDD Normal"] = Int2Num(15)
    /\ StateRow["Percent of Normal HDD"] = <<"num", 250, 3>>

\* C2: every mean, max and min field of the state summary row is the reduction of
\* the division summary rows, in the report generator and in the station fetcher
C2_StateReducesDivisionRows ==
    /\ (Tables /\ excel_df_div # <<>>) =>
          /\ \A c \in MeanFields : MeanOver(StateRow[c], excel_df_div, c, DivIdx)
          /\ \A c \in {"Highest T-Max", "1-Day Max", "P-Days"} :
                MaxOver(StateRow[c], excel_df_div, c, DivIdx)
          /\ MinOver(StateRow["Lowest T-Min"], excel_df_div, "Lowest T-Min", DivIdx)
    /\ (Fetcher /\ div_summary # <<>>) =>
          /\ \A c \in {"Avg T-Max", "Avg T-Min", "T-Avg", "T-Avg DFN", "HDD", "CDD",
                       "Total P", "P-DFN"} :
                MeanOver(div_summary[Len(div_summary)][c], div_summary, c,
                         1..(Len(div_summary) - 1))
          /\ \A c \in {"Highest T-Max", "1-Day Max", "P-Days"} :
                MaxOver(div_summary[Len(div_summary)][c], div_summary, c,
                        1..(Len(div_summary) - 1))
          /\ MinOver(div_summary[Len(div_summary)]["Lowest T-Min"], div_summary,
                     "Lowest T-Min", 1..(Len(div_summary) - 1))

\* C3: the percent of normal of HDD and of CDD of every division summary is the mean
\* of the members' degree days over the mean of the members' normals, times 100,
\* the sentinel left out of both means; it is absent, and nothing is divided, when
\* the mean of the normals is absent or zero
C3_DivisionPctIsRatioOfMeans ==
    (Tables /\ df_final # <<>>) =>
        \A i \in SummaryIdx : \A t \in DegreeDays :
            PctOver(df_final[i][PctCol(t)], df, t, NormalCol(t), MembersAt(i))

\* a division whose HDD percent differs from the mean of its members' percents and
\* whose CDD percent is absent because the mean of the CDD normals is zero
C3_RatioDiffersFromMeanOfPcts ==
    /\ Tables /\ df_final # <<>>
    /\ \E i \in SummaryIdx :
          /\ IsNum(df_final[i]["Percent of Normal HDD"])
          /\ \A j \in MembersAt(i) : IsNum(df[j]["Percent of Normal HDD"])
          /\ ~MeanOver(df_final[i]["Percent of Normal HDD"], df,
                       "Percent of Normal HDD", MembersAt(i))
          /\ df_final[i]["CDD Normal"] = Int2Num(0)
          /\ df_final[i]["Percent of Normal CDD"] = NaN

\* C4: every mean field of every division summary is the arithmetic mean of the
\* members whose value is neither the sentinel -999 nor absent, and is absent when
\* there is no such member
C4_MeansSkipSentinel ==
    (Tables /\ df_final # <<>>) =>
        \A i \in SummaryIdx : \A c \in MeanFields :
            MeanOver(df_final[i][c], df, c, MembersAt(i))

\* a division whose members have HDD 10, -999 and 20 and whose mean is 15, with a
\* field that all of its members miss and that the summary reports as absent
C4_TenMissingTwenty ==
    /\ Tables /\ df_final # <<>>
    /\ \E i \in SummaryIdx :
          /\ Cardinality(MembersAt(i)) = 3
          /\ {df[j]["HDD"] : j \in MembersAt(i)} = {Int2Num(10), Sentinel, Int2Num(20)}
          /\ df_final[i]["HDD"] = Int2Num(15)
          /\ \A j \in MembersAt(i) : df[j]["T-Avg DFN"] = Sentinel
          /\ df_final[i]["T-Avg DFN"] = NaN

\* C5 (as stated): in every division summary and in the state summary the highest
\* maximum temperature, the largest one-day precipitation and the largest
\* missing-day counts are the max, and the lowest minimum temperature the min, of
\* the values that are not missing
C5_ExtremesWithMissingDayCounts ==
    /\ (Tables /\ df_final # <<>>) =>
          \A i \in SummaryIdx :
              /\ \A c \in {"Highest T-Max", "1-Day Max"} \cup MissingCounts :
                    MaxOver(df_final[i][c], df, c, MembersAt(i))
              /\ MinOver(df_final[i]["Lowest T-Min"], df, "Lowest T-Min", MembersAt(i))
    /\ (Tables /\ excel_df_div # <<>>) =>
          /\ \A c \in {"Highest T-Max", "1-Day Max"} \cup MissingCounts :
                MaxOver(StateRow[c], excel_df_div, c, DivIdx)
          /\ MinOver(StateRow["Lowest T-Min"], excel_df_div, "Lowest T-Min", DivIdx)

\* C5 (amended): in every division summary the highest maximum temperature, the
\* largest one-day precipitation and the largest count of precipitation days are
\* the max, and the lowest minimum temperature the min, of the members' values
\* that are neither -999 nor absent, and the state summary reduces the division
\* rows in the same way; the two missing-day counts are not reduced: a division
\* summary holds the empty string for them and the state summary has no such field
C5_ExtremesAndBlankMissingDayCounts ==
    /\ (Tables /\ df_final # <<>>) =>
          \A i \in SummaryIdx :
              /\ \A c \in {"Highest T-Max", "1-Day Max", "P-Days"} :
                    MaxOver(df_final[i][c], df, c, MembersAt(i))
              /\ MinOver(df_final[i]["Lowest T-Min"], df, "Lowest T-Min", MembersAt(i))
              /\ \A c \in MissingCounts : df_final[i][c] = Str("")
    /\ (Tables /\ excel_df_div # <<>>) =>
          /\ \A c \in {"Highest T-Max", "1-Day Max", "P-Days"} :
                MaxOver(StateRow[c], excel_df_div, c, DivIdx)
          /\ MinOver(StateRow["Lowest T-Min"], excel_df_div, "Lowest T-Min", DivIdx)
          /\ \A c \in MissingCounts : StateRow[c] = NaN

\* two divisions were reduced, one of them with a member whose lowest minimum is
\* the sentinel and a member whose missing-day count is a positive number
C5_ExtremesReduced ==
    /\ Tables /\ Len(excel_df_div) = 3
    /\ StateRow["Highest T-Max"] # excel_df_div[1]["Highest T-Max"]
    /\ \E i \in SummaryIdx :
          /\ \E j \in MembersAt(i) : df[j]["Lowest T-Min"] = Sentinel
          /\ \E j \in MembersAt(i) :
                IsNum(df[j]["Missing T-Avg"]) /\ df[j]["Missing T-Avg"][2] > 0
          /\ IsNum(df_final[i]["Lowest T-Min"])
          /\ \E j, k \in MembersAt(i) :
                /\ IsNum(df[j]["Highest T-Max"]) /\ IsNum(df[k]["Highest T-Max"])
                /\ df[j]["Highest T-Max"] # df[k]["Highest T-Max"]

IsStateRow(r) == Eq(r["Station Name"], Str("State"))
\* the last division summary of df_final before position i, 0 when there is none
PrevSummary(i) ==
    IF \E k \in SummaryIdx : k < i
    THEN CHOOSE k \in SummaryIdx : k < i /\ \A m \in SummaryIdx : m < i => m <= k
    ELSE 0
\* the station rows of df of the division code, in the order of df
StationsOf(code) == SelectSeq(df, LAMBDA r : Eq(r["Climate Division"], code))
\* the division codes of the station rows of df: the divisions that are not null
CodesOfStations ==
    {df[j]["Climate Division"][2] : j \in {k \in 1..Len(df) : IsStr(df[k]["Climate Division"])}}

\* the first n rows of df_final are the divisions of df in ascending order of their
\* codes, each with all of its stations and then its one summary row
OrderedByDivision(n) ==
    /\ n \in SummaryIdx
    /\ \A i, j \in SummaryIdx :
          i < j => StrLess(df_final[i]["Climate Division"][2], df_final[j]["Climate Division"][2])
    /\ \A i \in SummaryIdx :
          /\ i - PrevSummary(i) > 1
          /\ SubSeq(df_final, PrevSummary(i) + 1, i - 1) =
                StationsOf(df_final[i]["Climate Division"])
    /\ {df_final[i]["Climate Division"][2] : i \in SummaryIdx} = CodesOfStations

Permuted(rows, p) == [i \in 1..Len(rows) |-> rows[p[i]]]
\* the division summaries of a final table, in its order
SummariesOf(final) == SelectSeq(final, IsSummaryRow)
\* the cells of the row a are those of the row b
SameCells(a, b) == \A c \in DOMAIN a : a[c] = b[c]

\* the division summaries of the table final, and the state summary of its
\* division rows, are those of the run
AsArrived(final) ==
    /\ SummariesOf(final) = SummariesOf(df_final)
    /\ SameCells(create_state_summary(DivisionRows(final)), StateRow)

FixSpec(v, r) ==
    CASE Eq(v, Str("M")) -> r = Sentinel
      [] Eq(v, Str("T")) -> r = Int2Num(0)
      [] OTHER -> IF IsErr(Float(v)) THEN r = v ELSE r = Float(v)

\* C8: the fix_missing of the running script maps every raw value of every fetched
\* station without raising: 'M' to -999, 'T' to zero, a value that parses as a
\* number to that number, any other value to itself
C8_FixMissingFollowsTheRule ==
    \A i \in 1..Len(stations_data) :
        stations_data[i].smry # Absent =>
            \A k \in 1..Len(stations_data[i].smry[2]) :
                FixSpec(stations_data[i].smry[2][k],
                        IF Fetcher THEN fetcher_fix_missing(stations_data[i].smry[2][k])
                        ELSE fix_missing(stations_data[i].smry[2][k]))

\* the first identifier of the entry, trimmed, when it has one
FirstId(station) ==
    IF station.meta # Absent /\ IsList(station.meta[2].sids)
       /\ Len(station.meta[2].sids[2]) > 0 /\ IsStr(station.meta[2].sids[2][1])
    THEN Strip(station.meta[2].sids[2][1][2])
    ELSE ""
\* the upstream's own value of the field k, 'Unknown' when it has none
Upstream(station, k) ==
    IF station.meta = Absent \/ station.meta[2][k] = Absent THEN Str("Unknown")
    ELSE station.meta[2][k]
\* the identity the stated rule gives the entry: <<name, division>>
StatedIdentity(station) ==
    IF FirstId(station) \in DOMAIN station_dict
    THEN <<Str(station_dict[FirstId(station)][1]), Str(station_dict[FirstId(station)][2])>>
    ELSE <<Upstream(station, "name"), Upstream(station, "climdiv")>>

\* C9: in the report generator and in the station fetcher no entry's identity
\* resolution ends the run, and every entry gets its row: with the directory's
\* name and division when its first identifier, trimmed, is in the directory, and
\* otherwise with the upstream's name and division or 'Unknown'
C9_IdentityResolutionNeverFails ==
    ((Tables \/ Fetcher) /\ stations_data # <<>> /\ pc # "process") =>
        /\ ~(pc = "failed" /\ err \in {"IndexError", "AttributeError"})
        /\ df # <<>> =>
              /\ Len(df) = Len(stations_data)
              /\ \A i \in 1..Len(df) :
                    /\ df[i]["Station Name (File)"] = StatedIdentity(api.data[i])[1]
                    /\ df[i]["Climate Division"] = StatedIdentity(api.data[i])[2]

\* the station id of the line, when the line gives a directory entry
Produces(line, id) == id \in DOMAIN load_station_list(<<line>>).station_dict
\* the last line of the file that gives an entry for id
LastLine(id) ==
    CHOOSE k \in 1..Len(station_file.lines) :
        /\ Produces(station_file.lines[k], id)
        /\ \A m \in (k + 1)..Len(station_file.lines) : ~Produces(station_file.lines[m], id)

\* C10: once a directory is loaded, the mapping has one entry for each station id
\* that a line of the file gives and no other, and the entry of an id holds the
\* name and the division of the last line that gives that id
C10_OneEntryLastLineWins ==
    (station_file.exists /\ pc # "start") =>
        /\ DOMAIN station_dict =
              UNION {DOMAIN load_station_list(<<station_file.lines[k]>>).station_dict :
                        k \in 1..Len(station_file.lines)}
        /\ \A id \in DOMAIN station_dict :
              station_dict[id] =
                  load_station_list(<<station_file.lines[LastLine(id)]>>).station_dict[id]

\* a directory was loaded in which two lines give one id with different divisions,
\* and the mapping holds the later of the two
C10_LaterLineReplaced ==
    /\ station_file.exists /\ pc # "start"
    /\ \E k, m \in 1..Len(station_file.lines) : \E id \in DOMAIN station_dict :
          /\ k < m
          /\ Produces(station_file.lines[k], id) /\ Produces(station_file.lines[m], id)
          /\ load_station_list(<<station_file.lines[k]>>).station_dict[id] #
                load_station_list(<<station_file.lines[m]>>).station_dict[id]
          /\ station_dict[id] = load_station_list(<<station_file.lines[m]>>).station_dict[id]

\* the position of the first blank of a line without outer whitespace, 0 when it
\* has none
FirstBlank(t) ==
    IF \E i \in 1..Len(t) : IsSpace(SubSeq(t, i, i))
    THEN CHOOSE i \in 1..Len(t) :
             /\ IsSpace(SubSeq(t, i, i))
             /\ \A j \in 1..(i - 1) : ~IsSpace(SubSeq(t, j, j))
    ELSE 0
\* the line has a station code and a display name; its first token; the rest
HasCodeAndName(line) == FirstBlank(Strip(line)) > 0
StationCode(line) == SubSeq(Strip(line), 1, FirstBlank(Strip(line)) - 1)
DisplayName(line) ==
    Strip(SubSeq(Strip(line), FirstBlank(Strip(line)) + 1, Len(Strip(line))))
\* the lines of the file with a code and a name, and with a code of two characters
\* or more
NamedLines == {k \in 1..Len(station_file.lines) : HasCodeAndName(station_file.lines[k])}
DerivableLines == {k \in NamedLines : Len(StationCode(station_file.lines[k])) >= 2}
\* the code without its last two characters, and 'LA' with those two
StatedId(code) == SubSeq(code, 1, Len(code) - 2)
StatedDivision(code) == "LA" \o SubSeq(code, Len(code) - 1, Len(code))

\* C11: once a directory is loaded, every line with a station code (of two characters
\* or more) and a display name has given the station id that is the code without
\* its last two characters, requested in the order of the lines, and, unless a
\* later line gives the same id, the entry of that id holds the rest of the line
\* after the first token, outer whitespace trimmed and inner whitespace kept, and
\* the division 'LA' followed by the last two characters of the code
C11_IdDivisionAndNameOfALine ==
    (station_file.exists /\ pc # "start") =>
        \A k \in DerivableLines :
            LET line == station_file.lines[k]
                id == StatedId(StationCode(line))
            IN  /\ id \in DOMAIN station_dict
                /\ (\A m \in (k + 1)..Len(station_file.lines) :
                        ~Produces(station_file.lines[m], id)) =>
                       station_dict[id] =
                           <<DisplayName(line), StatedDivision(StationCode(line))>>
                /\ prog # "weather_data_fetcher" =>
                       /\ Len(requested_ids) = Cardinality(NamedLines)
                       /\ requested_ids[Cardinality({m \in NamedLines : m <= k})] = id

\* a directory was loaded whose line '  BR02   Baton  Rouge  ' gave the id BR, the
\* division LA02 and the name with its two inner blanks
C11_BatonRougeLoaded ==
    /\ station_file.exists /\ pc # "start"
    /\ \E k \in DerivableLines : station_file.lines[k] = "  BR02   Baton  Rouge  "
    /\ "BR" \in DOMAIN station_dict
    /\ station_dict["BR"] = <<"Baton  Rouge", "LA02">>
    /\ prog = "generate_tables" /\ \E j \in 1..Len(requested_ids) : requested_ids[j] = "BR"

\* the lines of the file whose station code is shorter than two characters
ShortCodeLines == NamedLines \ DerivableLines

\* C12: a run whose directory holds a line with a station code shorter than two
\* characters ends at the load with MalformedStationCode, and no entry of the
\* mapping and no requested id comes from such a line
C12_ShortCodeFailsTheLoad ==
    (station_file.exists /\ pc # "start" /\ ShortCodeLines # {}) =>
        /\ pc = "failed" /\ err = "MalformedStationCode"
        /\ stations_data = <<>>
        /\ \A id \in DOMAIN station_dict :
              \E k \in DerivableLines : id = StatedId(StationCode(station_file.lines[k]))
        /\ \A j \in 1..Len(requested_ids) :
              \E k \in DerivableLines :
                  requested_ids[j] = StatedId(StationCode(station_file.lines[k]))

\* the operand is missing: the sentinel, or the fetcher's nan
MissingOperand(v) == IsSentinel(v) \/ IsNa(v)
\* d is a - b, on cross-multiplied integers
IsDifference(d, a, b) ==
    IsNum(d) /\ d[2] * a[3] * b[3] = (a[2] * b[3] - b[2] * a[3]) * d[3]

\* C13: in every decoded station row, of every script, the precipitation departure
\* is total precipitation minus normal precipitation when neither is missing, and
\* is itself marked missing (never a number) when either of the two is the sentinel
C13_DepartureOnlyFromPresentOperands ==
    \A i \in 1..Len(df) :
        LET total_p == df[i]["Total P"]
            normal_p == df[i]["Normal P"]
        IN  IF MissingOperand(total_p) \/ MissingOperand(normal_p)
            THEN IsNa(df[i]["P-DFN"])
            ELSE IsDifference(df[i]["P-DFN"], total_p, normal_p)

\* slot k (from 0) of the values array of the i-th station of the answer
RawSlot(i, k) == Slot(Padded(SmryOf(api.data[i])), k)
\* the slot holds a pair [value, second component]
IsPaired(x) == IsList(x) /\ Len(x[2]) = 2
\* the cell is the date YYYYMMDD reformatted: a date value, or the text MM/DD
IsReformatted(cell, yyyymmdd) ==
    \/ Eq(cell, <<"date", yyyymmdd>>)
    \/ Eq(cell, Str(SubSeq(yyyymmdd, 5, 6) \o "/" \o SubSeq(yyyymmdd, 7, 8)))

\* C14: in every decoded station row, the peak-precipitation date of a paired slot
\* [value, date] is the date reformatted, and the one of a bare value or an absent
\* slot is the marker 'N/A', not null and not a missing date
C14_PeakDateOrNotApplicable ==
    \A i \in 1..Len(df) :
        IF IsPaired(RawSlot(i, 13))
        THEN IsReformatted(df[i]["P-Max Date"], RawSlot(i, 13)[2][2][2])
        ELSE Eq(df[i]["P-Max Date"], Str("N/A"))

\* the column of a missing-day count and the slot it is read from
CountSlot(c) == IF c = "Missing T-Avg" THEN 15 ELSE 16

\* C15: in every decoded station row, each of the two missing-day counts is the
\* second component of its slot when the slot is a pair, and zero, not a missing
\* value, when the slot is a bare value or is absent
C15_MissingDayCountsDefaultZero ==
    \A i \in 1..Len(df) : \A c \in MissingCounts :
        IF IsPaired(RawSlot(i, CountSlot(c)))
        THEN Eq(df[i][c], RawSlot(i, CountSlot(c))[2][2])
        ELSE Eq(df[i][c], Int2Num(0))

\* the entry has more values than the 17 documented, or its metadata is no mapping
IsMalformed(station) == Len(SmryOf(station)) > NSlots \/ ~IsMapping(MetaOf(station))
\* the columns of the report generator read from slots 8..16, and their slots
LateSlots == 8..14
LateColumn(k) ==
    CASE k = 8 -> "CDD" [] k = 9 -> "CDD DFN" [] k = 10 -> "Total P" [] k = 11 -> "Normal P"
      [] k = 12 -> "1-Day Max" [] k = 13 -> "P-Max Date" [] k = 14 -> "P-Days"

\* C16: once the report generator has gone through the answer, an answer with a
\* malformed entry (more than 17 values, or metadata that is no mapping) has ended
\* the run with UpstreamPayloadError and without any station row, and otherwise an
\* entry with fewer than 17 values was padded to 17 with the absent marker and
\* decoded, its absent slots giving absent cells
C16_MalformedPayloadFailsTheRun ==
    (Tables /\ pc \notin {"start", "fetch", "process"} /\ api.ok /\ api.data # <<>>) =>
        IF \E i \in 1..Len(api.data) : IsMalformed(api.data[i])
        THEN /\ pc = "failed" /\ err = "UpstreamPayloadError"
             /\ df = <<>> /\ df_final = <<>> /\ out = EmptyDict
        ELSE \A i \in 1..Len(api.data) :
                 (df # <<>> /\ Len(SmryOf(api.data[i])) < NSlots) =>
                     /\ api.data[i].smry # Absent =>
                            stations_data[i].smry = List(Padded(SmryOf(api.data[i])))
                     /\ \A k \in LateSlots :
                            k >= Len(SmryOf(api.data[i])) => IsNa(df[i][LateColumn(k)])

\* no cell of the written table is the sentinel
NoSentinelIn(table) ==
    \A i \in 1..Len(table) : \A c \in DOMAIN table[i] : ~IsSentinel(table[i][c])

\* C17: no cell of a station row or of a summary row of any file the report
\* generator has written (the Excel sheets, the CSV files, the HTML table) is the
\* sentinel -999
C17_NoSentinelInAnyExport ==
    (Tables /\ pc = "done") => \A f \in DOMAIN out : NoSentinelIn(out[f])

\* C18: in a run whose station directory file is missing, the only step ever taken
\* is the load, and it ends the run in the fatal error state (an exit of the report
\* generator, an uncaught FileNotFoundError of the other two scripts): nothing is
\* requested, decoded, aggregated or exported
C18_MissingDirectoryAbortsFirst ==
    [][~station_file.exists =>
          /\ pc = "start" /\ pc' = "failed"
          /\ err' \in {"SystemExit", "FileNotFoundError"}
          /\ UNCHANGED <<station_dict, requested_ids, stations_data, df, df_final,
                         excel_df_div, div_summary, out>>]_vars

\* the report generator's run has ended at the load of a missing file, with nothing
\* requested or written, though the upstream would have answered
C18_AbortedAtTheLoad ==
    /\ ~station_file.exists /\ api.ok
    /\ prog = "generate_tables" /\ pc = "failed" /\ err = "SystemExit"
    /\ stations_data = <<>> /\ df = <<>> /\ df_final = <<>> /\ out = EmptyDict

\* the payload as the first decoding left it, decoded once more by the same script
DecodedAgain ==
    CASE Tables -> DecodedTables(stations_data, station_dict)
      [] Fetcher -> DecodedFetcher(stations_data, station_dict)
      [] OTHER -> DecodedScript(stations_data, station_dict)
\* the station record of a decoding, as the frame holds it
RecordOf(res) == IF Tables THEN Coerced(res.row) ELSE res.row
\* the decoding loop has run: to its end, or to the station that raised
LoopDone == stations_data # <<>> /\ pc \notin {"start", "fetch", "process"}

\* the second decoding res gives the records of the first, or raises what the first
\* raised
SameAsFirst(res) ==
    IF df # <<>>
    THEN /\ FirstRaise(res) = 0
         /\ df = [i \in 1..Len(res) |-> RecordOf(res[i])]
    ELSE /\ pc = "failed"
         /\ FirstRaise(res) # 0
         /\ res[FirstRaise(res)].exc = err

StationRowsOf(final) == {j \in 1..Len(final) : ~IsSummaryRow(final[j])}
SummaryRowsOf(final) == {j \in 1..Len(final) : IsSummaryRow(final[j])}

\* C20: once create_divisional_summaries has been called on the station rows, it
\* has returned a table in which every station row appears as often as the answer
\* gave it and no other station row does, whatever its division is (a null one
\* too), with one summary row for each distinct division value of the station rows
C20_GroupingKeepsEveryStationRow ==
    (Tables /\ df # <<>> /\ pc \notin {"start", "fetch", "process", "summaries"}) =>
        /\ pc # "failed"
        /\ Cardinality(StationRowsOf(df_final)) = Len(df)
        /\ \A i \in 1..Len(df) :
              Cardinality({j \in StationRowsOf(df_final) : df_final[j] = df[i]}) =
                  Cardinality({k \in 1..Len(df) : df[k] = df[i]})
        /\ Cardinality(SummaryRowsOf(df_final)) =
              Cardinality({df[i]["Climate Division"] : i \in 1..Len(df)})

\* C21: in every division summary, the members that enter the mean of HDD are the
\* members that enter the mean of HDD Normal (the members whose cell is a number
\* other than the sentinel; the means are the ones over those members), and likewise
\* for CDD and CDD Normal
C21_BothMeansOverTheSameMembers ==
    (Tables /\ df_final # <<>>) =>
        \A i \in SummaryIdx : \A t \in DegreeDays :
            /\ MeanOver(df_final[i][t], df, t, MembersAt(i))
            /\ MeanOver(df_final[i][NormalCol(t)], df, NormalCol(t), MembersAt(i))
            /\ Present(df, t, MembersAt(i)) = Present(df, NormalCol(t), MembersAt(i))

====
